---- MODULE Spec2Model ----
(***************************************************************************)
(* Model of src/app.py, the "Musson" stove sizing calculator.              *)
(*                                                                         *)
(* Python floats are modelled as exact rationals <<numerator, denominator>>*)
(* in lowest terms with a positive denominator; binary rounding of floats  *)
(* is not modelled.  math.sqrt is exact on the perfect squares the model   *)
(* draws floor areas from.  Cyrillic dictionary keys are transliterated.   *)
(***************************************************************************)
EXTENDS Integers, Sequences, FiniteSets, TLC

(***************************************************************************)
(* Exact arithmetic standing for Python float arithmetic.                  *)
(***************************************************************************)
Abs(n) == IF n < 0 THEN -n ELSE n

RECURSIVE GCD(_, _)
GCD(a, b) == IF b = 0 THEN a ELSE GCD(b, a % b)

\* n/d for d # 0, in lowest terms with a positive denominator
Rat(n, d) ==
    LET g == GCD(Abs(n), Abs(d))
        s == IF d < 0 THEN -1 ELSE 1
    IN  IF n = 0 THEN <<0, 1>> ELSE <<s * (n \div g), (s * d) \div g>>

R(n) == <<n, 1>>

RNeg(a) == <<-a[1], a[2]>>

RAdd(a, b) ==
    LET g == GCD(a[2], b[2])
    IN  Rat(a[1] * (b[2] \div g) + b[1] * (a[2] \div g), (a[2] \div g) * b[2])

RSub(a, b) == RAdd(a, RNeg(b))

RMul(a, b) ==
    IF a[1] = 0 \/ b[1] = 0 THEN <<0, 1>>
    ELSE LET g1 == GCD(Abs(a[1]), b[2])
             g2 == GCD(Abs(b[1]), a[2])
         IN  <<(a[1] \div g1) * (b[1] \div g2), (a[2] \div g2) * (b[2] \div g1)>>

\* a / b for b # 0
RDiv(a, b) == RMul(a, IF b[1] > 0 THEN <<b[2], b[1]>> ELSE <<-b[2], -b[1]>>)

\* sign of n1/d1 - n2/d2 for d1, d2 > 0, by continued-fraction expansion
\* (no cross products, so no intermediate exceeds the operands)
RECURSIVE CmpFrac(_, _, _, _)
CmpFrac(n1, d1, n2, d2) ==
    LET q1 == n1 \div d1
        q2 == n2 \div d2
        r1 == n1 % d1
        r2 == n2 % d2
    IN  IF q1 < q2 THEN -1
        ELSE IF q1 > q2 THEN 1
        ELSE IF r1 = 0 /\ r2 = 0 THEN 0
        ELSE IF r1 = 0 THEN -1
        ELSE IF r2 = 0 THEN 1
        ELSE CmpFrac(d2, r2, d1, r1)

RLt(a, b) == CmpFrac(a[1], a[2], b[1], b[2]) < 0
RLeq(a, b) == CmpFrac(a[1], a[2], b[1], b[2]) <= 0
RGeq(a, b) == RLeq(b, a)
RGt(a, b) == RLt(b, a)

\* A quotient too wide for one fraction of machine integers is kept as the
\* product <<x, y>> of two fractions, standing for x * y.
PMul(p, r) == <<p[1], RMul(p[2], r)>>
PDiv(p, r) == <<p[1], RDiv(p[2], r)>>

\* x1 * y1 = x2 * y2
PEq(p, q) ==
    IF p[1][1] = 0 \/ p[2][1] = 0 THEN q[1][1] = 0 \/ q[2][1] = 0
    ELSE /\ q[1][1] # 0
         /\ q[2][1] # 0
         /\ RDiv(p[1], q[1]) = RDiv(q[2], p[2])

\* math.sqrt on a perfect square
Sqrt(a) == R(CHOOSE s \in 0..a[1] : s * s = a[1])

(***************************************************************************)
(* Static catalogs.                                                        *)
(***************************************************************************)
\* thermal conductivity, W/(m K)
MATERIALS ==
    [kirpich |-> Rat(81, 100), gazoblok |-> Rat(12, 100), derevo |-> Rat(18, 100),
     sandwich_panel |-> Rat(4, 100), keramzit_blok |-> Rat(43, 100)]

\* faulty variant: one price entered out of order
MUSSON_MODELS_repriced ==
    << [model |-> "Musson 300", volume_l |-> 77, price |-> 45000],
       [model |-> "Musson 600", volume_l |-> 125, price |-> 65000],
       [model |-> "Musson 1000", volume_l |-> 200, price |-> 85000],
       [model |-> "Musson 1500", volume_l |-> 311, price |-> 60000],
       [model |-> "Musson 2000", volume_l |-> 467, price |-> 135000] >>

\* dict iteration order is insertion order
MUSSON_MODELS ==
    << [model |-> "Musson 300", volume_l |-> 77, price |-> 45000],
       [model |-> "Musson 600", volume_l |-> 125, price |-> 65000],
       [model |-> "Musson 1000", volume_l |-> 200, price |-> 85000],
       [model |-> "Musson 1500", volume_l |-> 311, price |-> 110000],
       [model |-> "Musson 2000", volume_l |-> 467, price |-> 135000] >>

WOOD_TYPES ==
    [hvoynye |-> [density |-> R(350), q |-> R(17)],
     bereza |-> [density |-> R(450), q |-> R(18)],
     dub |-> [density |-> R(550), q |-> Rat(39, 2)],
     lipa |-> [density |-> R(500), q |-> Rat(35, 2)],
     othody |-> [density |-> R(700), q |-> R(12)]]

(***************************************************************************)
(* Outcome of a call: a returned value or a raised exception.              *)
(***************************************************************************)
Returned(v) == [raised |-> "none", value |-> <<v>>]
Raised(e) == [raised |-> e, value |-> <<>>]
Value(o) == o.value[1]

(***************************************************************************)
(* Calculation functions.  A float division by zero raises                 *)
(* ZeroDivisionError; nothing in the functions catches it or tests for it. *)
(***************************************************************************)
\* faulty variant: the ventilation term left without the temperature difference
calc_heat_loss_vent(area_m2, height_m, wall_thickness_m, material, t_in, t_out, windows_m2, doors_m2, roof_insulation) ==
    LET volume_m3 == RMul(area_m2, height_m)
        lambda_wall == MATERIALS[material]
        r_wall == RDiv(wall_thickness_m, lambda_wall)
        wall_area == RSub(RSub(RMul(RMul(R(2), height_m), RMul(Sqrt(area_m2), R(4))),
                               windows_m2), doors_m2)
        dT == RSub(t_in, t_out)
        q_walls == RDiv(RMul(wall_area, dT), r_wall)
        q_windows == RDiv(RMul(windows_m2, dT), Rat(4, 10))
        q_doors == RDiv(RMul(doors_m2, dT), Rat(6, 10))
        roof_r == IF ~roof_insulation THEN Rat(2, 10) ELSE R(1)
        q_roof == RDiv(RMul(area_m2, dT), roof_r)
        q_vent == RMul(Rat(3, 10), volume_m3)
        total_w == RAdd(RAdd(RAdd(RAdd(q_walls, q_windows), q_doors), q_roof), q_vent)
    IN  IF r_wall[1] = 0 THEN Raised("ZeroDivisionError")
        ELSE Returned(RDiv(total_w, R(1000)))

calc_heat_loss(area_m2, height_m, wall_thickness_m, material, t_in, t_out, windows_m2, doors_m2, roof_insulation) ==
    LET volume_m3 == RMul(area_m2, height_m)
        lambda_wall == MATERIALS[material]
        r_wall == RDiv(wall_thickness_m, lambda_wall)
        wall_area == RSub(RSub(RMul(RMul(R(2), height_m), RMul(Sqrt(area_m2), R(4))),
                               windows_m2), doors_m2)
        dT == RSub(t_in, t_out)
        q_walls == RDiv(RMul(wall_area, dT), r_wall)
        q_windows == RDiv(RMul(windows_m2, dT), Rat(4, 10))
        q_doors == RDiv(RMul(doors_m2, dT), Rat(6, 10))
        roof_r == IF ~roof_insulation THEN Rat(2, 10) ELSE R(1)
        q_roof == RDiv(RMul(area_m2, dT), roof_r)
        q_vent == RMul(RMul(Rat(3, 10), volume_m3), dT)
        total_w == RAdd(RAdd(RAdd(RAdd(q_walls, q_windows), q_doors), q_roof), q_vent)
    IN  IF r_wall[1] = 0 THEN Raised("ZeroDivisionError")
        ELSE Returned(RDiv(total_w, R(1000)))

\* faulty variant: the energy of a load multiplied by the burn time
musson_power_times(volume_l, fill_fraction, wood_type, efficiency, burn_hours) ==
    LET vol_m3 == RDiv(volume_l, R(1000))
        filled_vol_m3 == RMul(vol_m3, fill_fraction)
        m_wood == RMul(filled_vol_m3, WOOD_TYPES[wood_type].density)
        q_fuel == RMul(m_wood, WOOD_TYPES[wood_type].q)
        q_kwh == RDiv(q_fuel, Rat(36, 10))
        useful_kwh == RMul(q_kwh, efficiency)
    IN  IF burn_hours[1] = 0 THEN Raised("ZeroDivisionError")
        ELSE Returned(<<useful_kwh, RMul(useful_kwh, burn_hours), m_wood>>)

\* faulty variant: the litre conversion with its operands swapped
musson_power_swapped(volume_l, fill_fraction, wood_type, efficiency, burn_hours) ==
    LET vol_m3 == RDiv(R(1000), volume_l)
        filled_vol_m3 == RMul(vol_m3, fill_fraction)
        m_wood == RMul(filled_vol_m3, WOOD_TYPES[wood_type].density)
        q_fuel == RMul(m_wood, WOOD_TYPES[wood_type].q)
        q_kwh == RDiv(q_fuel, Rat(36, 10))
        useful_kwh == RMul(q_kwh, efficiency)
    IN  IF burn_hours[1] = 0 THEN Raised("ZeroDivisionError")
        ELSE Returned(<<useful_kwh, RDiv(useful_kwh, burn_hours), m_wood>>)

\* returns (useful_kwh, p_kw, m_wood)
musson_power(volume_l, fill_fraction, wood_type, efficiency, burn_hours) ==
    LET vol_m3 == RDiv(volume_l, R(1000))
        filled_vol_m3 == RMul(vol_m3, fill_fraction)
        m_wood == RMul(filled_vol_m3, WOOD_TYPES[wood_type].density)
        q_fuel == RMul(m_wood, WOOD_TYPES[wood_type].q)
        q_kwh == RDiv(q_fuel, Rat(36, 10))
        useful_kwh == RMul(q_kwh, efficiency)
    IN  IF burn_hours[1] = 0 THEN Raised("ZeroDivisionError")
        ELSE Returned(<<useful_kwh, RDiv(useful_kwh, burn_hours), m_wood>>)

calculate_fuel_consumption(daily_heat_loss_kwh, wood_energy_kwh_per_kg) ==
    IF wood_energy_kwh_per_kg[1] = 0 THEN Raised("ZeroDivisionError")
    ELSE Returned(PDiv(<<daily_heat_loss_kwh, R(1)>>, wood_energy_kwh_per_kg))

(***************************************************************************)
(* The script body that runs after the widgets have been read.             *)
(***************************************************************************)
\* round half to even to the nearest integer
RInt(a) ==
    LET f == a[1] \div a[2]
        r2 == 2 * (a[1] % a[2])
    IN  IF r2 < a[2] THEN f
        ELSE IF r2 > a[2] THEN f + 1
        ELSE IF f % 2 = 0 THEN f ELSE f + 1

\* Series.round(1)
Round1(a) == Rat(RInt(RMul(a, R(10))), 10)

\* Series.round(0)
Round0(a) == R(RInt(a))

\* the widget values as the script passes them on
WallThickness(in) == RDiv(R(in.wall_thickness_cm), R(100))
FillFraction(in) == RDiv(R(in.fill_pct), R(100))
Efficiency(in) == RDiv(R(in.efficiency_pct), R(100))

HeatLossKw(in) ==
    Value(calc_heat_loss(R(in.area_m2), in.height_m, WallThickness(in), in.material,
                         R(in.t_in), R(in.t_out), R(in.windows_m2), R(in.doors_m2),
                         in.roof_insulation))

\* one row per catalog entry, in iteration order
Results(in) ==
    [i \in 1..Len(MUSSON_MODELS) |->
        LET params == MUSSON_MODELS[i]
            mp == Value(musson_power(R(params.volume_l), FillFraction(in), in.wood_type,
                                     Efficiency(in), R(in.burn_hours)))
        IN  [model |-> params.model, power |-> mp[2], energy |-> mp[1],
             wood_per_load |-> mp[3], price |-> params.price]]

\* df["Sootvetstvie"] and df["Rekomendaciya"] added to the rows
Df(res, hl) ==
    [i \in 1..Len(res) |->
        LET sootvetstvie == RGeq(res[i].power, RMul(hl, Rat(12, 10)))
        IN  [model |-> res[i].model, power |-> res[i].power, energy |-> res[i].energy,
             wood_per_load |-> res[i].wood_per_load, price |-> res[i].price,
             sootvetstvie |-> sootvetstvie,
             rekomendaciya |-> IF sootvetstvie THEN "Podhodit" ELSE "Malomoshchna"]]

DisplayDf(d) ==
    [i \in 1..Len(d) |->
        [model |-> d[i].model, power |-> Round1(d[i].power),
         energy |-> Round0(d[i].energy), wood_per_load |-> Round1(d[i].wood_per_load),
         rekomendaciya |-> d[i].rekomendaciya]]

\* faulty variant: the filter compares with the heat loss without the 1.2 margin
SuitableModels_nomargin(res, hl) == SelectSeq(res, LAMBDA r : RGeq(r.power, hl))

SuitableModels(res, hl) ==
    SelectSeq(res, LAMBDA r : RGeq(r.power, RMul(hl, Rat(12, 10))))

\* min(seq, key=price): the first element with the smallest key
RECURSIVE MinFrom(_, _, _)
MinFrom(seq, i, best) ==
    IF i > Len(seq) THEN best
    ELSE MinFrom(seq, i + 1, IF seq[i].price < best.price THEN seq[i] ELSE best)

RECURSIVE MaxFrom(_, _, _)
MaxFrom(seq, i, best) ==
    IF i > Len(seq) THEN best
    ELSE MaxFrom(seq, i + 1, IF seq[i].price > best.price THEN seq[i] ELSE best)

\* faulty variant: max() in place of min()
BestModel_dearest(suitable) == MaxFrom(suitable, 2, suitable[1])

BestModel(suitable) == MinFrom(suitable, 2, suitable[1])

DailyHeatKwh(in, hl) == RMul(hl, R(in.working_day_hours))

WoodEnergyKwhKg(in) == RMul(RDiv(WOOD_TYPES[in.wood_type].q, Rat(36, 10)), Efficiency(in))

DailyWoodKg(in, hl) ==
    Value(calculate_fuel_consumption(DailyHeatKwh(in, hl), WoodEnergyKwhKg(in)))

NumLoads(in) == RDiv(R(in.working_day_hours), R(in.burn_hours))

MonthlyWood(daily_wood) == PMul(daily_wood, R(22))

DailyCost(in, daily_wood) == PDiv(PMul(daily_wood, R(in.wood_price_m3)), R(1000))

MonthlyCost(daily_c) == PMul(daily_c, R(22))

\* a name the script has not bound
Unbound == <<>>

(***************************************************************************)
(* State: the widget values of the session, what the last run of the       *)
(* script bound and showed, and (for the function-level specification) a   *)
(* call of one calculation function with its outcome.                      *)
(***************************************************************************)
VARIABLES inputs, pc, heat_loss_kw, results, df, display_df, suitable_models,
          best_model, daily_wood_kg, num_loads, monthly_wood, daily_cost,
          monthly_cost, message, call, ret

vars == <<inputs, pc, heat_loss_kw, results, df, display_df, suitable_models,
          best_model, daily_wood_kg, num_loads, monthly_wood, daily_cost,
          monthly_cost, message, call, ret>>

\* the options of the two select boxes, as listed
BURN_HOURS == <<2, 4, 6, 8, 10>>
WORKING_DAY_HOURS == <<6, 8, 10, 12, 14, 16>>

\* how many of the burn-time options, from the first, the session uses
MaxBurnHoursIndex == 3

\* the values of each widget the session moves between: the widget's default
\* and one other value of its range (more for the burn time)
AreaOptions == {100, 484}
HeightOptions == {Rat(5, 2), R(5)}
MaterialOptions == {"kirpich", "sandwich_panel"}
WallThicknessOptions == {40, 10}
WindowsOptions == {5, 50}
DoorsOptions == {2, 10}
RoofOptions == {TRUE, FALSE}
TInOptions == {22, 30}
TOutOptions == {-20, -50}
WoodTypeOptions == {"hvoynye", "othody"}
WoodPriceOptions == {3500, 50000}
FillOptions == {85, 50}
EfficiencyOptions == {88, 70}
BurnHoursOptions == {BURN_HOURS[i] : i \in 1..MaxBurnHoursIndex}
WorkingDayOptions == {10, 16}

DefaultInputs ==
    [area_m2 |-> 100, height_m |-> Rat(5, 2), material |-> "kirpich",
     wall_thickness_cm |-> 40, windows_m2 |-> 5, doors_m2 |-> 2,
     roof_insulation |-> TRUE, t_in |-> 22, t_out |-> -20,
     wood_type |-> "hvoynye", wood_price_m3 |-> 3500, fill_pct |-> 85,
     efficiency_pct |-> 88, burn_hours |-> 6, working_day_hours |-> 10]

\* faulty variant: the smallest model offered when none is suitable
Recommendation_default(suitable) ==
    IF suitable # <<>> THEN BestModel(suitable)
    ELSE [model |-> MUSSON_MODELS[1].model, price |-> MUSSON_MODELS[1].price]

\* best_model is bound only in the branch taken when a model is suitable
Recommendation(suitable) == IF suitable # <<>> THEN BestModel(suitable) ELSE Unbound

NoCall == [fn |-> "none", args |-> <<>>]

\* the session starts with the widgets at their defaults and the script
\* about to run for the first time
Init ==
    /\ inputs = DefaultInputs
    /\ pc = "run"
    /\ heat_loss_kw = Unbound
    /\ results = Unbound
    /\ df = Unbound
    /\ display_df = Unbound
    /\ suitable_models = Unbound
    /\ best_model = Unbound
    /\ message = "none"
    /\ daily_wood_kg = Unbound
    /\ num_loads = Unbound
    /\ monthly_wood = Unbound
    /\ daily_cost = Unbound
    /\ monthly_cost = Unbound
    /\ call = NoCall
    /\ ret = Unbound

\* one run of the script, top to bottom, on the current widget values
RunScript ==
    /\ pc = "run"
    /\ heat_loss_kw' = HeatLossKw(inputs)
    /\ results' = Results(inputs)
    /\ df' = Df(results', heat_loss_kw')
    /\ display_df' = DisplayDf(df')
    /\ suitable_models' = SuitableModels(results', heat_loss_kw')
    /\ best_model' = Recommendation(suitable_models')
    /\ IF suitable_models' # <<>>
       THEN /\ message' = "success"
            /\ daily_wood_kg' = DailyWoodKg(inputs, heat_loss_kw')
            /\ num_loads' = NumLoads(inputs)
            /\ monthly_wood' = MonthlyWood(daily_wood_kg')
            /\ daily_cost' = DailyCost(inputs, daily_wood_kg')
            /\ monthly_cost' = MonthlyCost(daily_cost')
       ELSE /\ message' = "error"
            /\ daily_wood_kg' = Unbound
            /\ num_loads' = Unbound
            /\ monthly_wood' = Unbound
            /\ daily_cost' = Unbound
            /\ monthly_cost' = Unbound
    /\ pc' = "done"
    /\ UNCHANGED <<inputs, call, ret>>

\* the operator changes a widget of the rendered page: the runtime takes the
\* new value and starts the script again in a fresh namespace
Rerun(in) ==
    /\ pc = "done"
    /\ in # inputs
    /\ inputs' = in
    /\ pc' = "run"
    /\ heat_loss_kw' = Unbound
    /\ results' = Unbound
    /\ df' = Unbound
    /\ display_df' = Unbound
    /\ suitable_models' = Unbound
    /\ best_model' = Unbound
    /\ message' = "none"
    /\ daily_wood_kg' = Unbound
    /\ num_loads' = Unbound
    /\ monthly_wood' = Unbound
    /\ daily_cost' = Unbound
    /\ monthly_cost' = Unbound
    /\ UNCHANGED <<call, ret>>

SetArea == \E v \in AreaOptions : Rerun([inputs EXCEPT !.area_m2 = v])
SetHeight == \E v \in HeightOptions : Rerun([inputs EXCEPT !.height_m = v])
SetMaterial == \E v \in MaterialOptions : Rerun([inputs EXCEPT !.material = v])
SetWallThickness ==
    \E v \in WallThicknessOptions : Rerun([inputs EXCEPT !.wall_thickness_cm = v])
SetWindows == \E v \in WindowsOptions : Rerun([inputs EXCEPT !.windows_m2 = v])
SetDoors == \E v \in DoorsOptions : Rerun([inputs EXCEPT !.doors_m2 = v])
SetRoofInsulation == \E v \in RoofOptions : Rerun([inputs EXCEPT !.roof_insulation = v])
SetTIn == \E v \in TInOptions : Rerun([inputs EXCEPT !.t_in = v])
SetTOut == \E v \in TOutOptions : Rerun([inputs EXCEPT !.t_out = v])
SetWoodType == \E v \in WoodTypeOptions : Rerun([inputs EXCEPT !.wood_type = v])
SetWoodPrice == \E v \in WoodPriceOptions : Rerun([inputs EXCEPT !.wood_price_m3 = v])
SetFill == \E v \in FillOptions : Rerun([inputs EXCEPT !.fill_pct = v])
SetEfficiency == \E v \in EfficiencyOptions : Rerun([inputs EXCEPT !.efficiency_pct = v])
SetBurnHours == \E v \in BurnHoursOptions : Rerun([inputs EXCEPT !.burn_hours = v])
SetWorkingDay ==
    \E v \in WorkingDayOptions : Rerun([inputs EXCEPT !.working_day_hours = v])

Next ==
    \/ SetArea \/ SetHeight \/ SetMaterial \/ SetWallThickness \/ SetWindows
    \/ SetDoors \/ SetRoofInsulation \/ SetTIn \/ SetTOut \/ SetWoodType
    \/ SetWoodPrice \/ SetFill \/ SetEfficiency \/ SetBurnHours \/ SetWorkingDay
    \/ RunScript

Spec == Init /\ [][Next]_vars

(***************************************************************************)
(* Function-level specification: one call of a calculation function on     *)
(* arguments drawn from bounded sets, which include the zero denominators  *)
(* and the temperature orders the widgets never produce.                   *)
(***************************************************************************)
\* largest factor the temperature difference is scaled by
MaxK == 3

HeatLossCalls ==
    [fn : {"calc_heat_loss"},
     args : {R(100), R(484)} \X {R(2), Rat(5, 2)} \X {R(0), Rat(1, 10), Rat(2, 5)}
            \X {"kirpich", "derevo", "sandwich_panel"} \X {R(15), R(22), R(30)}
            \X {R(-50), R(10), R(22), R(30)} \X {R(0), R(5)} \X {R(0), R(2)}
            \X BOOLEAN]

Volumes == {R(MUSSON_MODELS[i].volume_l) : i \in 1..Len(MUSSON_MODELS)} \cup {R(1), R(1000)}

PowerCalls ==
    [fn : {"musson_power"},
     args : Volumes \X {R(0), Rat(1, 2), Rat(85, 100), R(1)} \X (DOMAIN WOOD_TYPES)
            \X {Rat(70, 100), Rat(88, 100), Rat(95, 100)}
            \X ({R(0)} \cup {R(BURN_HOURS[i]) : i \in 1..Len(BURN_HOURS)})]

ConsumptionCalls ==
    [fn : {"calculate_fuel_consumption"},
     args : {R(0), R(100), Rat(488593, 2000)}
            \X {R(0), Rat(187, 45), Rat(7, 3), Rat(247, 48)}]

InitFn ==
    /\ inputs = DefaultInputs
    /\ pc = "run"
    /\ heat_loss_kw = Unbound
    /\ results = Unbound
    /\ df = Unbound
    /\ display_df = Unbound
    /\ suitable_models = Unbound
    /\ best_model = Unbound
    /\ message = "none"
    /\ daily_wood_kg = Unbound
    /\ num_loads = Unbound
    /\ monthly_wood = Unbound
    /\ daily_cost = Unbound
    /\ monthly_cost = Unbound
    /\ call \in HeatLossCalls \cup PowerCalls \cup ConsumptionCalls
    /\ ret = Unbound

script_vars == <<inputs, pc, heat_loss_kw, results, df, display_df, suitable_models,
                 best_model, daily_wood_kg, num_loads, monthly_wood, daily_cost,
                 monthly_cost, message>>

CallCalcHeatLoss ==
    /\ call.fn = "calc_heat_loss"
    /\ ret = Unbound
    /\ ret' = calc_heat_loss(call.args[1], call.args[2], call.args[3], call.args[4],
                             call.args[5], call.args[6], call.args[7], call.args[8],
                             call.args[9])
    /\ UNCHANGED <<call, script_vars>>

CallMussonPower ==
    /\ call.fn = "musson_power"
    /\ ret = Unbound
    /\ ret' = musson_power(call.args[1], call.args[2], call.args[3], call.args[4],
                           call.args[5])
    /\ UNCHANGED <<call, script_vars>>

CallCalculateFuelConsumption ==
    /\ call.fn = "calculate_fuel_consumption"
    /\ ret = Unbound
    /\ ret' = calculate_fuel_consumption(call.args[1], call.args[2])
    /\ UNCHANGED <<call, script_vars>>

NextFn == CallCalcHeatLoss \/ CallMussonPower \/ CallCalculateFuelConsumption

SpecFn == InitFn /\ [][NextFn]_vars

(***************************************************************************)
(* Vocabulary of the properties.                                           *)
(***************************************************************************)
Done == pc = "done"
Recommended == best_model # Unbound
Catalog == 1..Len(MUSSON_MODELS)

\* power >= 1.2 x heat loss
MeetsDemand(power, hl) == RGeq(power, RMul(Rat(6, 5), hl))

\* rows of the last run that reach the required power
SuitableRows == {i \in DOMAIN results : MeetsDemand(results[i].power, heat_loss_kw)}

VolumeOf(name) == (CHOOSE m \in {MUSSON_MODELS[i] : i \in Catalog} : m.model = name).volume_l

CeilDiv(a, b) == (a + b - 1) \div b

Projections == <<daily_wood_kg, num_loads, monthly_wood, daily_cost, monthly_cost>>

Returns == ret # Unbound /\ ret.raised = "none"

(***************************************************************************)
(* C1: a model is recommended exactly when some catalog model reaches      *)
(* 1.2 x heat loss; the recommended one is suitable, no suitable model is  *)
(* cheaper, the first in catalog order wins a price tie; with no suitable  *)
(* model nothing is recommended.                                           *)
(***************************************************************************)
C1_CheapestSuitable ==
    Done =>
        /\ Recommended <=> SuitableRows # {}
        /\ (message = "success") <=> SuitableRows # {}
        /\ SuitableRows # {} =>
              \E i \in SuitableRows :
                  /\ best_model = results[i]
                  /\ \A j \in SuitableRows :
                        /\ results[j].price >= results[i].price
                        /\ results[j].price = results[i].price => i <= j
        /\ SuitableRows = {} => best_model = Unbound

\* a recommendation chosen among several suitable models, some model unsuitable
C1_Witness ==
    /\ Done
    /\ Recommended
    /\ Cardinality(SuitableRows) \in 2..(Len(MUSSON_MODELS) - 1)

(***************************************************************************)
(* C2: when no catalog model reaches 1.2 x heat loss the table still has   *)
(* one row per catalog model, every row marked unsuitable, the "no         *)
(* suitable model" message is shown, and neither a recommendation nor any  *)
(* daily/monthly fuel or cost projection is computed.                      *)
(***************************************************************************)
C2_NoneSuitable ==
    (Done /\ SuitableRows = {}) =>
        /\ Len(df) = Len(MUSSON_MODELS)
        /\ Len(display_df) = Len(MUSSON_MODELS)
        /\ \A i \in Catalog :
              /\ df[i].model = MUSSON_MODELS[i].model
              /\ display_df[i].model = MUSSON_MODELS[i].model
              /\ ~df[i].sootvetstvie
              /\ display_df[i].rekomendaciya = "Malomoshchna"
        /\ message = "error"
        /\ best_model = Unbound
        /\ \A i \in DOMAIN Projections : Projections[i] = Unbound

C2_Witness == Done /\ SuitableRows = {} /\ message = "error"

(***************************************************************************)
(* C3 (as claimed): whenever a model is recommended the daily fuel mass is *)
(* the recommended model's wood mass per load times                        *)
(* ceil(working_day_hours / burn_hours) loads.                             *)
(***************************************************************************)
C3_DailyFuelIsLoadsTimesLoad ==
    (Done /\ Recommended) =>
        LET loads == CeilDiv(inputs.working_day_hours, inputs.burn_hours)
        IN  /\ num_loads = R(loads)
            /\ PEq(daily_wood_kg, <<RMul(best_model.wood_per_load, R(loads)), R(1)>>)

(***************************************************************************)
(* C4 (as claimed): whenever a model is recommended                        *)
(* daily_cost = daily fuel x price per m3 / density of the fuel,           *)
(* monthly fuel = 22 x daily fuel and                                      *)
(* monthly_cost = monthly fuel x price per m3 / density.                   *)
(***************************************************************************)
C4_CostPerKgByDensity ==
    (Done /\ Recommended) =>
        LET density == WOOD_TYPES[inputs.wood_type].density
            price == R(inputs.wood_price_m3)
        IN  /\ PEq(daily_cost, PDiv(PMul(daily_wood_kg, price), density))
            /\ PEq(monthly_wood, PMul(daily_wood_kg, R(22)))
            /\ PEq(monthly_cost, PDiv(PMul(monthly_wood, price), density))

(***************************************************************************)
(* C5 (as claimed): a call whose burn_hours, wall thickness or per-kg      *)
(* energy is zero ends in an InvalidInput error and never in an undefined  *)
(* numeric result.                                                         *)
(***************************************************************************)
ZeroDenominator ==
    \/ call.fn = "calc_heat_loss" /\ call.args[3] = R(0)
    \/ call.fn = "musson_power" /\ call.args[5] = R(0)
    \/ call.fn = "calculate_fuel_consumption" /\ call.args[2] = R(0)

C5_ZeroDenominatorIsInvalidInput ==
    (ret # Unbound /\ ZeroDenominator) =>
        /\ ret.raised = "InvalidInput"
        /\ ret.value = <<>>

(***************************************************************************)
(* C6: calc_heat_loss is a geometry factor times dT = t_in - t_out:        *)
(* replacing dT by k x dT multiplies the result by k; the result is 0 when *)
(* t_in = t_out and negative when t_in < t_out and the factor is positive. *)
(***************************************************************************)
HeatLossAt(a, t_in, t_out) ==
    Value(calc_heat_loss(a[1], a[2], a[3], a[4], t_in, t_out, a[7], a[8], a[9]))

PowerAt(a, volume_l, burn_hours) ==
    Value(musson_power(volume_l, a[2], a[3], a[4], burn_hours))

C7_PowerDecreasesWithBurnHours ==
    (/\ call.fn = "musson_power"
     /\ Returns
     /\ RGt(call.args[1], R(0))
     /\ RGt(call.args[2], R(0))
     /\ RGt(call.args[4], R(0))) =>
        \A i \in DOMAIN BURN_HOURS :
            LET h == R(BURN_HOURS[i])
                other == PowerAt(call.args, call.args[1], h)
            IN  /\ RLt(call.args[5], h) => RGt(Value(ret)[2], other[2])
                /\ RGt(call.args[5], h) => RLt(Value(ret)[2], other[2])
                /\ other[1] = Value(ret)[1]
                /\ other[3] = Value(ret)[3]

\* a call on a loaded firebox with a longer burn time left to compare with
C7_Witness ==
    /\ call.fn = "musson_power"
    /\ Returns
    /\ RGt(call.args[2], R(0))
    /\ call.args[5] = R(4)
    /\ RGt(Value(ret)[2], R(0))

(***************************************************************************)
(* C8: the power returned by musson_power never decreases when the firebox *)
(* volume increases, other arguments fixed; so the catalog models' powers  *)
(* are ordered as their volumes 77 < 125 < 200 < 311 < 467.                *)
(***************************************************************************)
C8_PowerMonotoneInVolume ==
    (call.fn = "musson_power" /\ Returns) =>
        /\ \A v \in Volumes :
              LET other == PowerAt(call.args, v, call.args[5])[2]
              IN  /\ RLeq(call.args[1], v) => RLeq(Value(ret)[2], other)
                  /\ RLeq(v, call.args[1]) => RLeq(other, Value(ret)[2])
        /\ \A i, j \in Catalog :
              i < j =>
                  /\ MUSSON_MODELS[i].volume_l < MUSSON_MODELS[j].volume_l
                  /\ RLeq(PowerAt(call.args, R(MUSSON_MODELS[i].volume_l), call.args[5])[2],
                          PowerAt(call.args, R(MUSSON_MODELS[j].volume_l), call.args[5])[2])
                  /\ RGt(call.args[2], R(0)) =>
                        RLt(PowerAt(call.args, R(MUSSON_MODELS[i].volume_l), call.args[5])[2],
                            PowerAt(call.args, R(MUSSON_MODELS[j].volume_l), call.args[5])[2])

\* a call on a catalog volume with both smaller and larger volumes to compare with
C8_Witness ==
    /\ call.fn = "musson_power"
    /\ Returns
    /\ call.args[1] = R(200)
    /\ RGt(Value(ret)[2], R(0))

(***************************************************************************)
(* C9: every run produces one comparison row per catalog model, in catalog *)
(* order, computed from that model's volume and the shared fuel settings;  *)
(* a row is flagged suitable iff its power >= 1.2 x heat loss; the flagged *)
(* rows are exactly the models the recommendation is chosen from.          *)
(***************************************************************************)
C9_TableMatchesFilter ==
    Done =>
        /\ Len(results) = Len(MUSSON_MODELS)
        /\ Len(df) = Len(MUSSON_MODELS)
        /\ \A i \in Catalog :
              /\ results[i].model = MUSSON_MODELS[i].model
              /\ results[i].price = MUSSON_MODELS[i].price
              /\ results[i].wood_per_load =
                    Rat(MUSSON_MODELS[i].volume_l * inputs.fill_pct
                            * WOOD_TYPES[inputs.wood_type].density[1], 100000)
              /\ results[i].energy = RMul(results[i].power, R(inputs.burn_hours))
              /\ df[i].model = results[i].model
              /\ df[i].power = results[i].power
              /\ df[i].sootvetstvie <=> MeetsDemand(results[i].power, heat_loss_kw)
              /\ display_df[i].rekomendaciya = "Podhodit" <=> df[i].sootvetstvie
        /\ suitable_models = SelectSeq(results, LAMBDA r :
              \E i \in Catalog : df[i].model = r.model /\ df[i].sootvetstvie)

\* a table with both flagged and unflagged rows
C9_Witness ==
    /\ Done
    /\ \E i, j \in DOMAIN df : df[i].sootvetstvie /\ ~df[j].sootvetstvie

(***************************************************************************)
(* C10: the suitable models are a suffix of the catalog, and the           *)
(* recommended model is the first suitable one in catalog order: the       *)
(* suitable model of smallest volume and lowest power.                     *)
(***************************************************************************)
C10_FirstSuitableIsCheapest ==
    Done =>
        /\ \A i, j \in DOMAIN df : (i < j /\ df[i].sootvetstvie) => df[j].sootvetstvie
        /\ Recommended =>
              /\ best_model = suitable_models[1]
              /\ \E i \in DOMAIN df :
                    /\ df[i].sootvetstvie
                    /\ \A j \in 1..(i - 1) : ~df[j].sootvetstvie
                    /\ best_model.model = df[i].model
              /\ \A k \in DOMAIN suitable_models :
                    /\ VolumeOf(best_model.model) <= VolumeOf(suitable_models[k].model)
                    /\ RLeq(best_model.power, suitable_models[k].power)
                    /\ best_model.price <= suitable_models[k].price

\* a recommendation that is neither the first nor the only catalog model
C10_Witness ==
    /\ Done
    /\ Recommended
    /\ best_model.model # MUSSON_MODELS[1].model
    /\ Len(suitable_models) >= 2

====
